---------------------------- MODULE Spec2Model ----------------------------
(*************************************************************************)
(* A model of graphs.py: BaseGraph / UndirectedGraph.                      *)
(*                                                                         *)
(* The graph object is the state: the insertion-ordered dict `_nodes`      *)
(* (node -> list of single-entry {neighbour: weight} dicts), the injected  *)
(* FIFO queue, and the transient traversal fields `_visited_nodes`,        *)
(* `_traversal_order`, `_has_path`.  Every public method is one action; it *)
(* records the call and what the call returned (or raised) in `call` and   *)
(* `ret`.                                                                  *)
(*                                                                         *)
(* Node values are the integers 0 .. NumNodes-1.  0 is a node value that   *)
(* Python treats as false (`and end_node` in _validate_nodes); None is     *)
(* the absent end node and is never itself used as a node.                 *)
(*************************************************************************)
EXTENDS Integers, Sequences, FiniteSets, TLC

\* ------------------------------------------------------------ bounds
NumNodes == 3
MaxEdges == 2
MaxQueue == 3
MaxWeight == 1
GraphNumNodes == 4
GraphMaxEdges == 4

\* ------------------------------------------------------------ values
\* Python's None: the default of end_node, weight and parent_node.
None == -1

NodeValues == 0 .. (NumNodes - 1)
GraphNodeValues == 0 .. (GraphNumNodes - 1)
Weights == {None} \cup (1 .. MaxWeight)

\* bool(x) of a node value or None, as used by `and end_node`.
Truthy(x) == x # None /\ x # 0

VARIABLES nodes, fifo_queue, visited_nodes, traversal_order, has_path, call, ret

vars == <<nodes, fifo_queue, visited_nodes, traversal_order, has_path, call, ret>>

\* ------------------------------------------------------------ the dict
\* `_nodes` is an insertion-ordered dict: a sequence of [key, edges] entries;
\* an edge {to_node: weight} is the record [to, weight].
Keys(d) == {d[i].key : i \in 1 .. Len(d)}

IndexOf(d, n) == CHOOSE i \in 1 .. Len(d) : d[i].key = n

\* self._nodes[n] read: the edge list of a present key.
EdgesOf(d, n) == IF n \in Keys(d) THEN d[IndexOf(d, n)].edges ELSE <<>>

Edge(to_node, weight) == [to |-> to_node, weight |-> weight]

\* self._nodes[n].append(e) on a defaultdict(list): a missing key is created
\* with an empty list first, then the edge is appended.
AppendEdge(d, n, e) ==
    IF n \in Keys(d)
    THEN [d EXCEPT ![IndexOf(d, n)].edges = Append(@, e)]
    ELSE Append(d, [key |-> n, edges |-> <<e>>])

\* list(edge.keys())[0]
NeighbourOf(e) == e.to

\* The number of logical edges held (two storage records each).
RECURSIVE SumLen(_, _)
SumLen(d, i) == IF i > Len(d) THEN 0 ELSE Len(d[i].edges) + SumLen(d, i + 1)

NumEdges(d) == SumLen(d, 1) \div 2

\* ------------------------------------------------------------ results
\* What a call returned or raised; `return None` (and a method with no return).
RetNone == [kind |-> "None", path |-> <<>>, set |-> {}, flag |-> FALSE, missing |-> None]

RetList(p) == [RetNone EXCEPT !.kind = "list", !.path = p]

RetSet(s) == [RetNone EXCEPT !.kind = "set", !.set = s]

RetBool(b) == [RetNone EXCEPT !.kind = "bool", !.flag = b]

\* raise ValueError(f'Node {missing_node} not present in Graph')
RetError(n) == [RetNone EXCEPT !.kind = "ValueError", !.missing = n]

Call(op, a, b, w) == [op |-> op, a |-> a, b |-> b, w |-> w]

\* ------------------------------------------------------------ queue
\* The FifoQueue collaborator: enqueue, dequeue, and truthiness as "not empty".
Enqueue(q, x) == Append(q, x)

DequeueItem(q) == Head(q)

DequeueRest(q) == Tail(q)

QueueNonEmpty(q) == Len(q) > 0

\* ------------------------------------------------------------ validation
\* _validate_nodes: the condition under which it raises, and the node it names.
ValidateRaises(d, start_node, end_node) ==
    start_node \notin Keys(d) \/ (end_node \notin Keys(d) /\ Truthy(end_node))

MissingNode(d, start_node, end_node) ==
    IF start_node \notin Keys(d) THEN start_node ELSE end_node

\* ------------------------------------------------------------ traversal
\* The transient traversal fields, as one record threaded through a traversal.
Transient(q, v, o, h) == [queue |-> q, visited |-> v, order |-> o, has_path |-> h]

\* _dfs lines 121-122: mark visited and record.
Visit(st, node) ==
    [st EXCEPT !.visited = @ \cup {node}, !.order = Append(@, node)]

\* _dfs: recursive pre-order traversal.  A match returns from this call level
\* only; the callers' loops go on.
RECURSIVE Dfs(_, _, _, _), DfsLoop(_, _, _, _, _)
Dfs(d, node, end_node, st) ==
    IF node = end_node
    THEN [Visit(st, node) EXCEPT !.has_path = TRUE]
    ELSE DfsLoop(d, EdgesOf(d, node), 1, end_node, Visit(st, node))

DfsLoop(d, es, i, end_node, st) ==
    IF i > Len(es)
    THEN st
    ELSE DfsLoop(d, es, i + 1, end_node,
                 IF NeighbourOf(es[i]) \notin st.visited
                 THEN Dfs(d, NeighbourOf(es[i]), end_node, st)
                 ELSE st)

\* _bfs lines 161-166: enqueue, mark and record every unvisited neighbour.
RECURSIVE BfsExpand(_, _, _)
BfsExpand(es, i, st) ==
    IF i > Len(es)
    THEN st
    ELSE BfsExpand(es, i + 1,
                   IF NeighbourOf(es[i]) \notin st.visited
                   THEN [Visit(st, NeighbourOf(es[i]))
                           EXCEPT !.queue = Enqueue(@, NeighbourOf(es[i]))]
                   ELSE st)

\* _bfs lines 154-166: the while loop over the injected queue.
RECURSIVE BfsLoop(_, _, _)
BfsLoop(d, end_node, st) ==
    IF ~QueueNonEmpty(st.queue)
    THEN st
    ELSE IF DequeueItem(st.queue) = end_node
         THEN [st EXCEPT !.queue = DequeueRest(@), !.has_path = TRUE]
         ELSE BfsLoop(d, end_node,
                      BfsExpand(EdgesOf(d, DequeueItem(st.queue)), 1,
                                [st EXCEPT !.queue = DequeueRest(@)]))

\* _bfs lines 144-152: clear visited/order, then enqueue, mark and record the
\* start node.  The queue itself is not cleared.
Bfs(d, start_node, end_node, st) ==
    BfsLoop(d, end_node,
            [Visit([st EXCEPT !.visited = {}, !.order = <<>>], start_node)
               EXCEPT !.queue = Enqueue(@, start_node)])

\* find_path / find_shortest_path lines 188-190 and 217-219: the returned path
\* and the flag afterwards.
PathResult(st) == IF st.has_path THEN RetList(st.order) ELSE RetNone

\* A find_path that forgets `self._has_path = False`.
HasPathAfterKept(hp) == hp

HasPathAfter(hp) == IF hp THEN FALSE ELSE hp

\* A check that takes every node as having neighbours.
HasTraversableNeighboursAlways(es) == TRUE

\* _has_traversable_neighbours
HasTraversableNeighbours(es) == IF Len(es) # 0 THEN TRUE ELSE FALSE

\* connected_components lines 235-237: the loop over the dict.
RECURSIVE ComponentsLoop(_, _, _)
ComponentsLoop(d, i, st) ==
    IF i > Len(d)
    THEN st
    ELSE ComponentsLoop(d, i + 1,
                        IF HasTraversableNeighbours(d[i].edges)
                           /\ d[i].key \notin st.visited
                        THEN Dfs(d, d[i].key, None, st)
                        ELSE st)

\* ------------------------------------------------------------ cycles
\* A detector without the parent exclusion.
IsBackEdgeNoParent(parent_node, neighbour_node) == TRUE

\* _detect_cycles line 353: a visited neighbour that is not the parent.
IsBackEdge(parent_node, neighbour_node) == parent_node # neighbour_node

\* _detect_cycles: the result and the (shared, mutated) visited dict.
RECURSIVE DetectCycles(_, _, _, _), DetectLoop(_, _, _, _, _, _)
DetectCycles(d, current_node, visited, parent_node) ==
    DetectLoop(d, current_node, EdgesOf(d, current_node), 1,
               visited \cup {current_node}, parent_node)

DetectLoop(d, current_node, es, i, visited, parent_node) ==
    IF i > Len(es)
    THEN [cyclic |-> FALSE, visited |-> visited]
    ELSE IF NeighbourOf(es[i]) \notin visited
         THEN LET r == DetectCycles(d, NeighbourOf(es[i]), visited, current_node)
              IN  IF r.cyclic
                  THEN r
                  ELSE DetectLoop(d, current_node, es, i + 1, r.visited, parent_node)
         ELSE IF IsBackEdge(parent_node, NeighbourOf(es[i]))
              THEN [cyclic |-> TRUE, visited |-> visited]
              ELSE DetectLoop(d, current_node, es, i + 1, visited, parent_node)

\* is_cyclic lines 312-318: the loop over the dict.
RECURSIVE CyclicLoop(_, _, _)
CyclicLoop(d, i, visited) ==
    IF i > Len(d)
    THEN FALSE
    ELSE IF d[i].key \notin visited
         THEN LET r == DetectCycles(d, d[i].key, visited, None)
              IN  IF r.cyclic THEN TRUE ELSE CyclicLoop(d, i + 1, r.visited)
         ELSE CyclicLoop(d, i + 1, visited)

\* An _add_edge that stores the edge in one direction only.
StoreEdgeOneWay(d, from_node, to_node, weight) ==
    AppendEdge(d, from_node, Edge(to_node, weight))

\* UndirectedGraph._add_edge lines 292-297: the two appends.
StoreEdge(d, from_node, to_node, weight) ==
    AppendEdge(AppendEdge(d, from_node, Edge(to_node, weight)),
               to_node, Edge(from_node, weight))

\* ------------------------------------------------------------ the object
Current == Transient(fifo_queue, visited_nodes, traversal_order, has_path)

TypeOK ==
    /\ \A i \in 1 .. Len(nodes) : nodes[i].key \in NodeValues \cup GraphNodeValues
    /\ \A i, j \in 1 .. Len(nodes) : nodes[i].key = nodes[j].key => i = j
    /\ has_path \in BOOLEAN
    /\ visited_nodes \subseteq Keys(nodes)

Init ==
    /\ nodes = <<>>
    /\ fifo_queue = <<>>
    /\ visited_nodes = {}
    /\ traversal_order = <<>>
    /\ has_path = FALSE
    /\ call = Call("init", None, None, None)
    /\ ret = RetNone

\* add_node
AddNode(node) ==
    /\ nodes' = IF node \notin Keys(nodes)
                THEN Append(nodes, [key |-> node, edges |-> <<>>])
                ELSE nodes
    /\ call' = Call("add_node", node, None, None)
    /\ ret' = RetNone
    /\ UNCHANGED <<fifo_queue, visited_nodes, traversal_order, has_path>>

\* add_edge -> UndirectedGraph._add_edge
AddEdge(from_node, to_node, weight) ==
    /\ call' = Call("add_edge", from_node, to_node, weight)
    /\ IF ValidateRaises(nodes, from_node, to_node)
       THEN /\ ret' = RetError(MissingNode(nodes, from_node, to_node))
            /\ UNCHANGED nodes
       ELSE /\ nodes' = StoreEdge(nodes, from_node, to_node, weight)
            /\ ret' = RetNone
    /\ UNCHANGED <<fifo_queue, visited_nodes, traversal_order, has_path>>

\* find_path
FindPath(start_node, end_node) ==
    /\ call' = Call("find_path", start_node, end_node, None)
    /\ IF ValidateRaises(nodes, start_node, end_node)
       THEN /\ ret' = RetError(MissingNode(nodes, start_node, end_node))
            /\ UNCHANGED <<visited_nodes, traversal_order, has_path>>
       ELSE LET st == Dfs(nodes, start_node, end_node, Current)
            IN  /\ ret' = PathResult(st)
                /\ has_path' = HasPathAfter(st.has_path)
                /\ visited_nodes' = {}
                /\ traversal_order' = <<>>
    /\ UNCHANGED <<nodes, fifo_queue>>

\* find_shortest_path
FindShortestPath(start_node, end_node) ==
    /\ call' = Call("find_shortest_path", start_node, end_node, None)
    /\ IF ValidateRaises(nodes, start_node, end_node)
       THEN /\ ret' = RetError(MissingNode(nodes, start_node, end_node))
            /\ UNCHANGED <<fifo_queue, visited_nodes, traversal_order, has_path>>
       ELSE LET st == Bfs(nodes, start_node, end_node, Current)
            IN  /\ Len(st.queue) <= MaxQueue
                /\ ret' = PathResult(st)
                /\ fifo_queue' = st.queue
                /\ has_path' = HasPathAfter(st.has_path)
                /\ visited_nodes' = {}
                /\ traversal_order' = <<>>
    /\ UNCHANGED nodes

\* connected_components
ConnectedComponents ==
    LET st == ComponentsLoop(nodes, 1, Current)
    IN  /\ call' = Call("connected_components", None, None, None)
        /\ ret' = RetSet(st.visited)
        /\ visited_nodes' = {}
        /\ traversal_order' = <<>>
        /\ has_path' = st.has_path
        /\ UNCHANGED <<nodes, fifo_queue>>

\* is_cyclic
IsCyclic ==
    /\ call' = Call("is_cyclic", None, None, None)
    /\ ret' = RetBool(CyclicLoop(nodes, 1, {}))
    /\ UNCHANGED <<nodes, fifo_queue, visited_nodes, traversal_order, has_path>>

\* add_edge is offered while the graph holds fewer than `bound` edges (a call
\* that raises stores nothing and is always offered).
EdgeRoom(from_node, to_node, bound) ==
    ValidateRaises(nodes, from_node, to_node) \/ NumEdges(nodes) < bound

\* The object's whole lifetime: every public method, in any order.
Next ==
    \/ \E n \in NodeValues : AddNode(n)
    \/ \E u, v \in NodeValues, w \in Weights :
          EdgeRoom(u, v, MaxEdges) /\ AddEdge(u, v, w)
    \/ \E s \in NodeValues, e \in NodeValues \cup {None} : FindPath(s, e)
    \/ \E s \in NodeValues, e \in NodeValues \cup {None} : FindShortestPath(s, e)
    \/ ConnectedComponents
    \/ IsCyclic

Spec == Init /\ [][Next]_vars

\* Building a graph and asking the two whole-graph queries, over more nodes
\* and edges (unweighted).
GraphNext ==
    \/ \E n \in GraphNodeValues : AddNode(n)
    \/ \E u, v \in GraphNodeValues :
          EdgeRoom(u, v, GraphMaxEdges) /\ AddEdge(u, v, None)
    \/ ConnectedComponents
    \/ IsCyclic

GraphSpec == Init /\ [][GraphNext]_vars

\* ------------------------------------------------------------ graph theory
\* What the properties below are stated against: adjacency, reachability,
\* distance and cycles of the stored graph, defined without any traversal code.
Adjacent(d, u, v) ==
    \E i \in 1 .. Len(EdgesOf(d, u)) : EdgesOf(d, u)[i].to = v

RECURSIVE Grow(_, _)
Grow(d, S) ==
    LET T == S \cup {v \in Keys(d) : \E u \in S : Adjacent(d, u, v)}
    IN  IF T = S THEN S ELSE Grow(d, T)

Reach(d, s) == Grow(d, {s})

RECURSIVE DistFrom(_, _, _, _)
DistFrom(d, S, e, k) ==
    IF e \in S
    THEN k
    ELSE DistFrom(d, S \cup {v \in Keys(d) : \E u \in S : Adjacent(d, u, v)}, e, k + 1)

\* The number of edges of a shortest path from s to a reachable e.
Distance(d, s, e) == DistFrom(d, {s}, e, 0)

NumComponents(d) == Cardinality({Reach(d, n) : n \in Keys(d)})

\* A multigraph is a forest exactly when edges = nodes - components.
HasCycle(d) == NumEdges(d) > Cardinality(Keys(d)) - NumComponents(d)

IsWalk(d, p) == \A i \in 1 .. (Len(p) - 1) : Adjacent(d, p[i], p[i + 1])

Elements(p) == {p[i] : i \in 1 .. Len(p)}

CountEdge(es, to_node, weight) ==
    Cardinality({i \in 1 .. Len(es) : es[i] = Edge(to_node, weight)})

Fresh == Transient(<<>>, {}, <<>>, FALSE)

PathOps == {"find_path", "find_shortest_path"}

\* ------------------------------------------------------------ properties

\* C1: on a graph built by add_node/add_edge (the queue still empty),
\* find_shortest_path(start, end) with end reachable from start returns a
\* sequence from start to end whose consecutive nodes are joined by an edge
\* and which has the minimum number of edges.
C1_ShortestPathIsShortest ==
    [][ ( /\ fifo_queue = <<>>
          /\ call'.op = "find_shortest_path"
          /\ call'.a \in Keys(nodes)
          /\ call'.b \in Reach(nodes, call'.a) )
        => ( /\ ret'.kind = "list"
             /\ Head(ret'.path) = call'.a
             /\ ret'.path[Len(ret'.path)] = call'.b
             /\ IsWalk(nodes, ret'.path)
             /\ Len(ret'.path) - 1 = Distance(nodes, call'.a, call'.b) ) ]_vars

\* C2: whenever find_path(a, b) on present nodes returns a sequence, the
\* sequence starts with a and ends with b.
C2_FindPathEndsAtTarget ==
    ( /\ call.op = "find_path"
      /\ call.a \in Keys(nodes)
      /\ call.b \in Keys(nodes)
      /\ ret.kind = "list" )
    => ( Head(ret.path) = call.a /\ ret.path[Len(ret.path)] = call.b )

\* C3: find_path, find_shortest_path and add_edge raise the not-found error
\* whenever the start node or a non-null end node is absent; the error names
\* the first missing node and the storage is left as it was.
C3_MissingNodeRaises ==
    [][ ( /\ call'.op \in PathOps \cup {"add_edge"}
          /\ (call'.a \notin Keys(nodes)
              \/ (call'.b # None /\ call'.b \notin Keys(nodes))) )
        => ( /\ ret'.kind = "ValueError"
             /\ ret'.missing = (IF call'.a \notin Keys(nodes) THEN call'.a ELSE call'.b)
             /\ nodes' = nodes ) ]_vars

\* C4: at any point of the object's life, find_shortest_path(start, end) on
\* present nodes returns a sequence if end is reachable from start and the
\* absent result otherwise, never an error, and what it returns is what it
\* returns on the same graph with an empty queue.
C4_StaleQueueHasNoEffect ==
    ( /\ call.op = "find_shortest_path"
      /\ call.a \in Keys(nodes)
      /\ call.b \in Keys(nodes) )
    => ( /\ ret.kind # "ValueError"
         /\ (ret.kind = "list") = (call.b \in Reach(nodes, call.a))
         /\ ret = PathResult(Bfs(nodes, call.a, call.b, Fresh)) )

\* C5: at any point of the object's life, when find_path and
\* find_shortest_path both return a sequence for the same present start and
\* end, the one of find_shortest_path is no longer.
C5_ShortestNoLongerThanPath ==
    ( /\ call.op = "find_shortest_path"
      /\ call.a \in Keys(nodes)
      /\ call.b \in Keys(nodes)
      /\ ret.kind = "list"
      /\ PathResult(Dfs(nodes, call.a, call.b, Fresh)).kind = "list" )
    => Len(ret.path) <= Len(PathResult(Dfs(nodes, call.a, call.b, Fresh)).path)

\* C6: find_shortest_path(start) with no end node returns the breadth-first
\* visitation order of start's component: a sequence that begins with start
\* and holds every node reachable from start exactly once.
C6_NoEndReturnsTraversal ==
    ( /\ call.op = "find_shortest_path"
      /\ call.b = None
      /\ call.a \in Keys(nodes) )
    => ( /\ ret.kind = "list"
         /\ Head(ret.path) = call.a
         /\ Elements(ret.path) = Reach(nodes, call.a)
         /\ Len(ret.path) = Cardinality(Reach(nodes, call.a)) )

\* C7: is_cyclic() returns true exactly when the stored graph has a cycle (a
\* self-loop and a repeated edge count as cycles), whatever the order in
\* which nodes and edges were added.
C7_IsCyclicIffCycle ==
    call.op = "is_cyclic" => (ret.kind = "bool" /\ ret.flag = HasCycle(nodes))

\* is_cyclic() has answered true on a 4-cycle: four nodes, four edges, every
\* node joined to two other nodes, one component.
C7_Witness ==
    /\ call.op = "is_cyclic"
    /\ ret.flag = TRUE
    /\ Len(nodes) = 4
    /\ NumEdges(nodes) = 4
    /\ NumComponents(nodes) = 1
    /\ \A i \in 1 .. Len(nodes) :
          /\ Len(nodes[i].edges) = 2
          /\ nodes[i].edges[1].to # nodes[i].edges[2].to
          /\ ~Adjacent(nodes, nodes[i].key, nodes[i].key)

\* The storage is symmetric: for distinct u, v and every weight w, u's list
\* holds {v: w} as often as v's list holds {u: w}.
C8_Symmetric ==
    \A u, v \in Keys(nodes), w \in Weights :
        u # v => CountEdge(EdgesOf(nodes, u), v, w) = CountEdge(EdgesOf(nodes, v), u, w)

\* A successful add_edge(u, v, w) appends one record to the end of u's list,
\* then one to the end of v's list, and changes no other list; a query
\* changes no list.
C8_AddEdgeAppends ==
    /\ (call'.op = "add_edge" /\ ret'.kind = "None")
       => \A k \in Keys(nodes') :
             EdgesOf(nodes', k) =
                 EdgesOf(nodes, k)
                    \o (IF k = call'.a THEN <<Edge(call'.b, call'.w)>> ELSE <<>>)
                    \o (IF k = call'.b THEN <<Edge(call'.a, call'.w)>> ELSE <<>>)
    /\ (call'.op \notin {"add_edge", "add_node"}) => nodes' = nodes

\* C8: the storage is always symmetric, every successful add_edge appends
\* exactly its two records, and no query changes the storage.
C8_SymmetricStorage == []C8_Symmetric /\ [][C8_AddEdgeAppends]_vars

\* add_edge has just stored a second, weighted edge between two distinct nodes.
C8_Witness ==
    /\ call.op = "add_edge"
    /\ ret.kind = "None"
    /\ call.a # call.b
    /\ call.w # None
    /\ NumEdges(nodes) = 2
    /\ CountEdge(EdgesOf(nodes, call.a), call.b, call.w) = 1

\* C9: connected_components() returns exactly the set of nodes that have at
\* least one edge, as one flat set; a node with an empty list is never in it.
C9_ComponentsAreNodesWithEdges ==
    call.op = "connected_components"
    => ( /\ ret.kind = "set"
         /\ ret.set = {n \in Keys(nodes) : Len(EdgesOf(nodes, n)) > 0} )

\* connected_components() has returned all four nodes of a graph of two
\* separate one-edge components.
C9_Witness ==
    /\ call.op = "connected_components"
    /\ Cardinality(ret.set) = 4
    /\ NumEdges(nodes) = 2
    /\ NumComponents(nodes) = 2

\* C10: the transient traversal state is clean between calls: the visited
\* set is empty, the traversal order is empty and the path-found flag is
\* false, whatever find_path, find_shortest_path or connected_components
\* returned or raised.
C10_TransientStateClean ==
    /\ visited_nodes = {}
    /\ traversal_order = <<>>
    /\ has_path = FALSE

\* find_path has returned a path of several nodes (the flag was set, then reset).
C10_Witness ==
    /\ call.op = "find_path"
    /\ ret.kind = "list"
    /\ Len(ret.path) >= 2
    /\ fifo_queue # <<>>

=============================================================================
